---- MODULE Spec2Model ----
(***************************************************************************)
(* Document ingestion and retrieval pipeline of qiushui-ai:                *)
(*   DocumentStatusManager  (document_status_manager.py)                   *)
(*   DocumentProcessor      (document_processor.py)                        *)
(*   VectorStoreService     (vector_store.py)                              *)
(*   VectorSearchService    (vector_search.py)                             *)
(*   the document and search endpoints that call them.                     *)
(*                                                                         *)
(* Abstractions.  A document's content is its length measured in splitter  *)
(* windows (0 = empty text), so the splitter yields `content` chunks.      *)
(* Timestamps are ordinals: updated_at counts the persisted writes of a    *)
(* row and processed_at is the ordinal of the write that stamped it        *)
(* (0 = NULL).  A collection name str(knowledge.uuid) is the uuid.         *)
(* Similarity and distance are in tenths (Scale = 1.0).                    *)
(***************************************************************************)
EXTENDS Integers, Sequences, FiniteSets, TLC

\* ------------------------------------------------------------- bounds
\* documents created in a run of the ingestion specification
MaxDocs == 1
\* documents created in a run of the search specification
MaxSearchDocs == 2
\* windows of the longest content
MaxChunks == 2
\* rows of the vector table
MaxVectors == 3
\* distinct query texts
NumQueries == 1
\* largest limit a search is called with
MaxLimit == 2
\* writes to a row after which the update endpoint is no longer called on it
MaxWrites == 2
\* requests that run the processor at the same time
NumRuns == 2
\* characters of the longest text given to the text splitter
MaxTextLen == 5
\* largest chunk_size and chunk_overlap the text splitter is built with
MaxChunkSize == 3
MaxChunkOverlap == 1

\* ---------------------------------------------------- program constants
STATUS_UPLOADED == "uploaded"
STATUS_EXTRACTED == "extracted"
STATUS_EMBEDDED == "embedded"
STATUS_FAILED == "failed"
\* KbDocumentBase.status default: a value outside the four states
STATUS_DEFAULT == "processed"
Statuses == {STATUS_UPLOADED, STATUS_EXTRACTED, STATUS_EMBEDDED, STATUS_FAILED}
EMBEDDING_MODEL == "dashscope-text-embedding-v4"

\* tenants, one user per tenant (CurrentUser = id, tenant_id), one knowledge
\* base per tenant; "kbX" is the id of no row
Tenants == {"A", "B"}
CurrentUsers == {[id |-> "user-" \o t, tenant_id |-> t] : t \in Tenants}
UserOf(t) == [id |-> "user-" \o t, tenant_id |-> t]
KbIds == {"kb-" \o t : t \in Tenants}
KbOf(t) == "kb-" \o t
DanglingKb == "kbX"

\* documents: qsa_kb_document rows by id (ids are serial and never reused:
\* the next id is one more than the number of rows ever created, which is
\* the length of observed; a hard-deleted row leaves the domain); knowledge: qsa_kb_knowledge rows by
\* id; pgvector: the vector table; observed: per document, the persisted
\* statuses in the order they were committed; last: the latest call, its
\* arguments and what it returned; sessions: per request in flight that
\* runs the processor on its own session, the row as that session loaded it
\* and how far the run has got.
VARIABLES documents, knowledge, pgvector, observed, last, sessions

vars == <<documents, knowledge, pgvector, observed, last, sessions>>

DocIds == DOMAIN documents

\* the table with the row of a new id inserted
InsertRow(docs, id, row) ==
    [i \in DOMAIN docs \cup {id} |-> IF i = id THEN row ELSE docs[i]]

\* ------------------------------------------------- DocumentStatusManager
\* a flow in which a failed document may be uploaded again
STATUS_FLOW_retry(s) ==
    CASE s = STATUS_UPLOADED -> {STATUS_EXTRACTED, STATUS_FAILED}
      [] s = STATUS_EXTRACTED -> {STATUS_EMBEDDED, STATUS_FAILED}
      [] s = STATUS_EMBEDDED -> {}
      [] s = STATUS_FAILED -> {STATUS_UPLOADED}
      [] OTHER -> {}

STATUS_FLOW(s) ==
    CASE s = STATUS_UPLOADED -> {STATUS_EXTRACTED, STATUS_FAILED}
      [] s = STATUS_EXTRACTED -> {STATUS_EMBEDDED, STATUS_FAILED}
      [] s = STATUS_EMBEDDED -> {}
      [] s = STATUS_FAILED -> {}
      [] OTHER -> {}

\* a status manager that lets a failure be recorded from any state
can_transition_to_lax(current_status, target_status) ==
    \/ target_status \in STATUS_FLOW(current_status)
    \/ target_status = STATUS_FAILED

\* a status manager that lets an uploaded document be marked embedded
can_transition_to_skip(current_status, target_status) ==
    \/ target_status \in STATUS_FLOW(current_status)
    \/ current_status = STATUS_UPLOADED /\ target_status = STATUS_EMBEDDED

can_transition_to(current_status, target_status) ==
    target_status \in STATUS_FLOW(current_status)

update_common_fields(doc, current_user) ==
    [doc EXCEPT !.updated_by = current_user.id, !.updated_at = @ + 1]

\* update_status(document, new_status, chunks_count): chunks_count is <<>>
\* for None and <<n>> for n.  commit_ok = FALSE is session.commit() raising:
\* the except branch rolls the session back, the row keeps its old values.
update_status(doc, new_status, chunks_count, current_user, commit_ok) ==
    IF ~can_transition_to(doc.status, new_status)
    THEN [ok |-> FALSE, doc |-> doc]
    ELSE LET d1 == [doc EXCEPT !.status = new_status]
             d2 == IF chunks_count # <<>>
                   THEN [d1 EXCEPT !.chunk_count = chunks_count[1]] ELSE d1
             d3 == update_common_fields(d2, current_user)
             d4 == IF new_status \in {STATUS_EMBEDDED, STATUS_FAILED}
                   THEN [d3 EXCEPT !.processed_at = d3.updated_at] ELSE d3
         IN IF commit_ok THEN [ok |-> TRUE, doc |-> d4]
            ELSE [ok |-> FALSE, doc |-> doc]

mark_as_extracted(doc, current_user, commit_ok) ==
    update_status(doc, STATUS_EXTRACTED, <<>>, current_user, commit_ok)

\* a mark_as_embedded that leaves chunk_count alone
mark_as_embedded_no_count(doc, chunks_count, embedding_model, current_user, commit_ok) ==
    IF ~can_transition_to(doc.status, STATUS_EMBEDDED)
    THEN [ok |-> FALSE, doc |-> doc]
    ELSE LET d1 == [doc EXCEPT !.status = STATUS_EMBEDDED]
             d2 == IF embedding_model # "None"
                   THEN [d1 EXCEPT !.embedding_model = embedding_model] ELSE d1
             d3 == update_common_fields(d2, current_user)
             d4 == [d3 EXCEPT !.processed_at = d3.updated_at]
         IN IF commit_ok THEN [ok |-> TRUE, doc |-> d4]
            ELSE [ok |-> FALSE, doc |-> doc]

\* a mark_as_embedded that does not consult the flow
mark_as_embedded_unchecked(doc, chunks_count, embedding_model, current_user, commit_ok) ==
    LET d1 == [doc EXCEPT !.status = STATUS_EMBEDDED,
                          !.chunk_count = chunks_count]
        d2 == IF embedding_model # "None"
              THEN [d1 EXCEPT !.embedding_model = embedding_model] ELSE d1
        d3 == update_common_fields(d2, current_user)
        d4 == [d3 EXCEPT !.processed_at = d3.updated_at]
    IN IF commit_ok THEN [ok |-> TRUE, doc |-> d4]
       ELSE [ok |-> FALSE, doc |-> doc]

\* a mark_as_embedded whose except clause does not undo the new status
mark_as_embedded_no_rollback(doc, chunks_count, embedding_model, current_user, commit_ok) ==
    IF ~can_transition_to(doc.status, STATUS_EMBEDDED)
    THEN [ok |-> FALSE, doc |-> doc]
    ELSE LET d1 == [doc EXCEPT !.status = STATUS_EMBEDDED,
                               !.chunk_count = chunks_count]
             d2 == IF embedding_model # "None"
                   THEN [d1 EXCEPT !.embedding_model = embedding_model] ELSE d1
             d3 == update_common_fields(d2, current_user)
             d4 == [d3 EXCEPT !.processed_at = d3.updated_at]
         IN IF commit_ok THEN [ok |-> TRUE, doc |-> d4]
            ELSE [ok |-> FALSE, doc |-> d1]

\* embedding_model "None" is Python None (falsy: the field is left alone)
mark_as_embedded(doc, chunks_count, embedding_model, current_user, commit_ok) ==
    IF ~can_transition_to(doc.status, STATUS_EMBEDDED)
    THEN [ok |-> FALSE, doc |-> doc]
    ELSE LET d1 == [doc EXCEPT !.status = STATUS_EMBEDDED,
                               !.chunk_count = chunks_count]
             d2 == IF embedding_model # "None"
                   THEN [d1 EXCEPT !.embedding_model = embedding_model] ELSE d1
             d3 == update_common_fields(d2, current_user)
             d4 == [d3 EXCEPT !.processed_at = d3.updated_at]
         IN IF commit_ok THEN [ok |-> TRUE, doc |-> d4]
            ELSE [ok |-> FALSE, doc |-> doc]

\* a mark_as_failed that passes no chunk count
mark_as_failed_keep_count(doc, current_user, commit_ok) ==
    update_status(doc, STATUS_FAILED, <<>>, current_user, commit_ok)

mark_as_failed(doc, current_user, commit_ok) ==
    update_status(doc, STATUS_FAILED, <<0>>, current_user, commit_ok)

\* ---------------------------------------------------- VectorStoreService
\* pgvector is the langchain_pg_embedding table in insertion order; the row
\* index is the generated id (no chunk carries "chunk_uuid", so
\* add_documents never sets doc.id and PGVector draws a fresh uuid per row).
\* add_documents embeds and inserts the whole batch or raises.
add_documents(store, chunks, collection_name, faults) ==
    IF "vector_store" \in faults
    THEN [exc |-> "Exception: vector store", store |-> store, ids |-> <<>>]
    ELSE [exc |-> "None",
          store |-> store \o [i \in 1..Len(chunks) |->
                        [collection |-> collection_name,
                         page_content |-> chunks[i].page_content,
                         metadata |-> chunks[i].metadata]],
          ids |-> [i \in 1..Len(chunks) |-> Len(store) + i]]

\* ------------------------------------------------------ DocumentProcessor
\* _split_document: the text splitter copies the document's metadata to
\* every chunk; page_content i stands for the i-th window of the content.
split_document(id, document, current_user, faults) ==
    IF document.content = 0
    THEN [exc |-> "ValueError: empty content", chunks |-> <<>>]
    ELSE [exc |-> "None",
          chunks |-> [i \in 1..document.content |->
              [page_content |-> i,
               metadata |-> [document_id |-> id,
                             tenant_id |-> document.tenant_id,
                             created_by |-> current_user.id,
                             knowledge_base_id |-> document.knowledge_base_id]]]]

\* a resolver that files the chunks of an unowned document, or of a
\* document whose knowledge base is gone, under a collection of its own
add_vectors_to_store_orphans(document, chunks, store, kn, faults) ==
    IF document.knowledge_base_id \notin DOMAIN kn
    THEN add_documents(store, chunks, "orphans", faults)
    ELSE add_documents(store, chunks, kn[document.knowledge_base_id].uuid, faults)

\* _add_vectors_to_store: resolve the collection, then add the batch
add_vectors_to_store(document, chunks, store, kn, faults) ==
    IF document.knowledge_base_id = "None"
    THEN [exc |-> "ValueError: no owner", store |-> store, ids |-> <<>>]
    ELSE IF document.knowledge_base_id \notin DOMAIN kn
    THEN [exc |-> "ValueError: knowledge base missing", store |-> store, ids |-> <<>>]
    ELSE add_documents(store, chunks, kn[document.knowledge_base_id].uuid, faults)

\* the exceptions the except clause of process_document lets through
escapes_narrow(exc) == exc \notin {"None", "ValueError: empty content",
                                   "ValueError: no owner",
                                   "ValueError: knowledge base missing"}

\* `except Exception` catches every exception the steps raise
escapes(exc) == FALSE

\* process_document(document).  faults names the steps that raise in this
\* run; steps records how far the run got: a step is "skipped", "ok" or
\* "raised"; a status update is "ok", "rolled back" (its commit raised and
\* the manager returned False) or "false" (the manager refused it).
process_document(id, docs, store, kn, current_user, faults) ==
    LET document == docs[id]
        split == split_document(id, document, current_user, faults)
        add == add_vectors_to_store(document, split.chunks, store, kn, faults)
        emb == mark_as_embedded(document, Len(split.chunks), EMBEDDING_MODEL,
                                current_user, "commit_embedded" \notin faults)
        exc == IF split.exc # "None" THEN split.exc ELSE add.exc
        failed == mark_as_failed(document, current_user, "commit_failed" \notin faults)
        steps == [split |-> IF split.exc = "None" THEN "ok" ELSE "raised",
                  add |-> IF split.exc # "None" THEN "skipped"
                          ELSE IF add.exc = "None" THEN "ok" ELSE "raised",
                  mark_embedded |-> IF exc # "None" THEN "skipped"
                                    ELSE IF emb.ok THEN "ok"
                                    ELSE IF "commit_embedded" \in faults
                                    THEN "rolled back" ELSE "false",
                  mark_failed |-> IF exc = "None" \/ escapes(exc) THEN "skipped"
                                  ELSE IF failed.ok THEN "ok"
                                  ELSE IF "commit_failed" \in faults
                                  THEN "rolled back" ELSE "false"]
    IN  IF exc # "None"
        THEN IF escapes(exc)
             THEN [documents |-> docs, pgvector |-> store,
                   result |-> [raised |-> TRUE, success |-> FALSE, error |-> exc,
                               chunks_count |-> <<>>, vector_ids |-> <<>>],
                   chunks |-> Len(split.chunks), steps |-> steps]
             ELSE [documents |-> [docs EXCEPT ![id] = failed.doc],
                   pgvector |-> store,
                   result |-> [raised |-> FALSE, success |-> FALSE, error |-> exc,
                               chunks_count |-> <<>>, vector_ids |-> <<>>],
                   chunks |-> Len(split.chunks), steps |-> steps]
        ELSE IF ~emb.ok
        THEN [documents |-> docs, pgvector |-> add.store,
              result |-> [raised |-> FALSE, success |-> FALSE,
                          error |-> "status update failed",
                          chunks_count |-> <<>>, vector_ids |-> <<>>],
              chunks |-> Len(split.chunks), steps |-> steps]
        ELSE [documents |-> [docs EXCEPT ![id] = emb.doc],
              pgvector |-> add.store,
              result |-> [raised |-> FALSE, success |-> TRUE, error |-> "None",
                          chunks_count |-> <<Len(split.chunks)>>,
                          vector_ids |-> add.ids],
              chunks |-> Len(split.chunks), steps |-> steps]

\* --------------------------------------------------------- similarity search
\* Cosine distance, in tenths, of a query text to the i-th window of a
\* document: the embedding model's geometry, fixed here as a table that
\* yields similarities 1.0, 0.8, 0.5 (for two different windows), 0.1 and
\* -0.2.
Scale == 10
DistanceTable == <<0, 2, 5, 5, 9, 12>>
Distance(query, document_id, page_content) ==
    DistanceTable[((query + 2 * document_id + 3 * page_content) % 6) + 1]

RECURSIVE InsertByDistance(_, _)
InsertByDistance(x, s) ==
    IF s = <<>> THEN <<x>>
    ELSE IF x.distance < Head(s).distance THEN <<x>> \o s
    ELSE <<Head(s)>> \o InsertByDistance(x, Tail(s))

\* ORDER BY distance ASC, rows of equal distance in insertion order
RECURSIVE SortByDistance(_)
SortByDistance(s) ==
    IF s = <<>> THEN <<>>
    ELSE InsertByDistance(s[Len(s)], SortByDistance(SubSeq(s, 1, Len(s) - 1)))

\* a merge that leaves the list in the order it was built
SortByScoreDesc_none(s) == s

RECURSIVE InsertBeforeEqual(_, _)
InsertBeforeEqual(x, s) ==
    IF s = <<>> THEN <<x>>
    ELSE IF x.similarity_score >= Head(s).similarity_score THEN <<x>> \o s
    ELSE <<Head(s)>> \o InsertBeforeEqual(x, Tail(s))

\* a sort that puts results of equal score in the reverse of the order it
\* met them
RECURSIVE SortByScoreDesc_ties_reversed(_)
SortByScoreDesc_ties_reversed(s) ==
    IF s = <<>> THEN <<>>
    ELSE InsertBeforeEqual(s[Len(s)],
                           SortByScoreDesc_ties_reversed(SubSeq(s, 1, Len(s) - 1)))

RECURSIVE InsertByScoreDesc(_, _)
InsertByScoreDesc(x, s) ==
    IF s = <<>> THEN <<x>>
    ELSE IF x.similarity_score > Head(s).similarity_score THEN <<x>> \o s
    ELSE <<Head(s)>> \o InsertByScoreDesc(x, Tail(s))

\* list.sort(key=similarity_score, reverse=True): stable
RECURSIVE SortByScoreDesc(_)
SortByScoreDesc(s) ==
    IF s = <<>> THEN <<>>
    ELSE InsertByScoreDesc(s[Len(s)], SortByScoreDesc(SubSeq(s, 1, Len(s) - 1)))

RECURSIVE Flatten(_)
Flatten(parts) ==
    IF parts = <<>> THEN <<>> ELSE Head(parts) \o Flatten(Tail(parts))

Take(s, n) == SubSeq(s, 1, IF n < Len(s) THEN n ELSE Len(s))

\* a store that applies knowledge_base_id filters only
MatchesFilter_kb_only(metadata, filter_dict) ==
    \/ filter_dict = <<>>
    \/ filter_dict[1] = "document_id"
    \/ /\ filter_dict[1] = "knowledge_base_id"
       /\ metadata.knowledge_base_id = filter_dict[2]

\* a filter is <<>> (None) or <<key, value>>
MatchesFilter(metadata, filter_dict) ==
    \/ filter_dict = <<>>
    \/ /\ filter_dict[1] = "knowledge_base_id"
       /\ metadata.knowledge_base_id = filter_dict[2]
    \/ /\ filter_dict[1] = "document_id"
       /\ metadata.document_id = filter_dict[2]

\* VectorStoreService.search_similar: the k nearest rows of the collection
\* that match the filter, formatted; [] when the store raises.  store_ok =
\* FALSE is a search during which the embedding call, the vector table or
\* the session raises: every except clause on the way returns [].  No chunk
\* metadata carries "position", so position is the default 0.
search_similar(store, query, collection_name, k, filter_dict, store_ok) ==
    IF ~store_ok THEN <<>>
    ELSE LET rows == SelectSeq(store, LAMBDA r :
                        /\ r.collection = collection_name
                        /\ MatchesFilter(r.metadata, filter_dict))
             scored == [i \in 1..Len(rows) |->
                  [content |-> rows[i].page_content,
                   distance |-> Distance(query, rows[i].metadata.document_id,
                                         rows[i].page_content),
                   metadata |-> rows[i].metadata]]
             nearest == Take(SortByDistance(scored), k)
         IN [i \in 1..Len(nearest) |->
                [content |-> nearest[i].content,
                 similarity_score |-> Scale - nearest[i].distance,
                 document_id |-> nearest[i].metadata.document_id,
                 position |-> 0,
                 tenant_id |-> nearest[i].metadata.tenant_id,
                 knowledge_base_id |-> nearest[i].metadata.knowledge_base_id]]

RECURSIVE ExtendAll(_, _, _, _, _, _)
ExtendAll(collections, store, query, k, store_ok, acc) ==
    IF collections = <<>> THEN acc
    ELSE ExtendAll(Tail(collections), store, query, k, store_ok,
             acc \o search_similar(store, query, Head(collections), k, <<>>, store_ok))

\* the rows of a table in the order the select returns them
RECURSIVE SetToSeq(_)
SetToSeq(S) ==
    IF S = {} THEN <<>>
    ELSE LET x == CHOOSE y \in S : TRUE
         IN <<x>> \o SetToSeq(S \ {x})

\* _get_all_collections: select(KbKnowledge.uuid), every tenant's rows
get_all_collections(kn) == [i \in 1..Len(SetToSeq(DOMAIN kn)) |->
                               kn[SetToSeq(DOMAIN kn)[i]].uuid]

AtLeast(results, similarity_threshold) ==
    SelectSeq(results, LAMBDA r : r.similarity_score >= similarity_threshold)

\* a search that falls back to every collection when the knowledge base is
\* not found
search_similar_chunks_fallback(kn, store, query, knowledge_base_id, limit, similarity_threshold, store_ok) ==
    IF knowledge_base_id \in DOMAIN kn
    THEN Take(AtLeast(search_similar(store, query, kn[knowledge_base_id].uuid,
                                     limit * 2,
                                     <<"knowledge_base_id", knowledge_base_id>>,
                                     store_ok),
                      similarity_threshold), limit)
    ELSE Take(AtLeast(SortByScoreDesc(ExtendAll(get_all_collections(kn), store,
                                                query, limit, TRUE, <<>>)),
                      similarity_threshold), limit)

\* a search of a knowledge base that returns every candidate that passes
\* the threshold
search_similar_chunks_untruncated(kn, store, query, knowledge_base_id, limit, similarity_threshold, store_ok) ==
    IF knowledge_base_id # "None"
    THEN IF knowledge_base_id \notin DOMAIN kn THEN <<>>
         ELSE AtLeast(search_similar(store, query, kn[knowledge_base_id].uuid,
                                     limit * 2,
                                     <<"knowledge_base_id", knowledge_base_id>>,
                                     store_ok),
                      similarity_threshold)
    ELSE Take(AtLeast(SortByScoreDesc(ExtendAll(get_all_collections(kn), store,
                                                query, limit, store_ok, <<>>)),
                      similarity_threshold), limit)

\* VectorSearchService.search_similar_chunks; knowledge_base_id "None" is a
\* falsy id: the search runs over every collection
search_similar_chunks(kn, store, query, knowledge_base_id, limit, similarity_threshold, store_ok) ==
    IF knowledge_base_id # "None"
    THEN IF knowledge_base_id \notin DOMAIN kn THEN <<>>
         ELSE Take(AtLeast(search_similar(store, query, kn[knowledge_base_id].uuid,
                                          limit * 2,
                                          <<"knowledge_base_id", knowledge_base_id>>,
                                          store_ok),
                           similarity_threshold), limit)
    ELSE Take(AtLeast(SortByScoreDesc(ExtendAll(get_all_collections(kn), store,
                                                query, limit, store_ok, <<>>)),
                      similarity_threshold), limit)

\* a search within a document that does not look the document row up and
\* asks every collection for the chunks carrying the id
search_by_document_id_unchecked(docs, kn, store, document_id, query, limit, store_ok) ==
    Take(Flatten([i \in 1..Len(get_all_collections(kn)) |->
                     search_similar(store, query, get_all_collections(kn)[i], limit,
                                    <<"document_id", document_id>>, store_ok)]),
         limit)

\* VectorSearchService.search_by_document_id
search_by_document_id(docs, kn, store, document_id, query, limit, store_ok) ==
    IF document_id \notin DOMAIN docs THEN <<>>
    ELSE IF docs[document_id].knowledge_base_id \notin DOMAIN kn THEN <<>>
    ELSE search_similar(store, query, kn[docs[document_id].knowledge_base_id].uuid,
                        limit, <<"document_id", document_id>>, store_ok)

\* knowledge_search_api.search_similar_content: document_id 0 is a falsy id.
\* The formatted result keeps content, score, document_id and position.
search_similar_content(docs, kn, store, query, knowledge_base_id, document_id, limit, similarity_threshold, store_ok) ==
    LET results == IF document_id # 0
                   THEN search_by_document_id(docs, kn, store, document_id,
                                              query, limit, store_ok)
                   ELSE search_similar_chunks(kn, store, query, knowledge_base_id,
                                              limit, similarity_threshold, store_ok)
    IN [i \in 1..Len(results) |->
           [content |-> results[i].content,
            similarity_score |-> results[i].similarity_score,
            document_id |-> results[i].document_id,
            position |-> results[i].position]]

\* the loop of api_search_multiple_knowledge_bases: one search_similar_content
\* per listed id, in list order; down holds the ids whose search raises
search_each(docs, kn, store, query, knowledge_base_ids, limit, similarity_threshold, down) ==
    [i \in 1..Len(knowledge_base_ids) |->
        search_similar_content(docs, kn, store, query, knowledge_base_ids[i], 0,
                               limit, similarity_threshold,
                               knowledge_base_ids[i] \notin down)]

\* a fan-out that gives up when one of the listed searches raises
api_search_multiple_knowledge_bases_strict(docs, kn, store, query, knowledge_base_ids, omitted, limit, similarity_threshold, down) ==
    IF omitted \/ \E i \in DOMAIN knowledge_base_ids : knowledge_base_ids[i] \in down
    THEN <<>>
    ELSE SortByScoreDesc(Flatten(search_each(docs, kn, store, query,
                                             knowledge_base_ids, limit,
                                             similarity_threshold, down)))

\* a fan-out that caps the merged list at limit
api_search_multiple_knowledge_bases_capped(docs, kn, store, query, knowledge_base_ids, omitted, limit, similarity_threshold, down) ==
    IF omitted THEN <<>>
    ELSE Take(SortByScoreDesc(Flatten(search_each(docs, kn, store, query,
                                                  knowledge_base_ids, limit,
                                                  similarity_threshold, down))),
              limit)

\* api_search_multiple_knowledge_bases: the results the response lists, in
\* the order it lists them.  omitted is a body without knowledge_base_ids:
\* iterating None raises TypeError, the handler answers "search failed".
api_search_multiple_knowledge_bases(docs, kn, store, query, knowledge_base_ids, omitted, limit, similarity_threshold, down) ==
    IF omitted THEN <<>>
    ELSE SortByScoreDesc(Flatten(search_each(docs, kn, store, query,
                                             knowledge_base_ids, limit,
                                             similarity_threshold, down)))

\* ------------------------------------------------------------ rows
\* a KbDocument row as the creating handlers write it
NewDocument(current_user, knowledge_base_id, content, status) ==
    [status |-> status, chunk_count |-> 0, processed_at |-> 0,
     embedding_model |-> "None", updated_by |-> current_user.id,
     updated_at |-> 0, content |-> content,
     knowledge_base_id |-> knowledge_base_id,
     tenant_id |-> current_user.tenant_id]

NoResult == [raised |-> FALSE, success |-> FALSE, error |-> "None",
             chunks_count |-> <<>>, vector_ids |-> 0]
NoSteps == [split |-> "skipped", add |-> "skipped",
            mark_embedded |-> "skipped", mark_failed |-> "skipped"]

Observe(seq, status) ==
    IF seq # <<>> /\ seq[Len(seq)] = status THEN seq ELSE Append(seq, status)

\* The steps that raise in one run of process_document: "vector_store"
\* (embedding or insert in add_documents), "commit_embedded" and
\* "commit_failed" (session.commit() in mark_as_embedded and in
\* mark_as_failed).  mark_as_embedded does not run after a raising add, so
\* these sets cover every combination of the three.
FaultSets == {{}, {"commit_failed"}, {"vector_store"},
              {"vector_store", "commit_failed"}, {"commit_embedded"}}
NoFaults == {{}}

Init ==
    /\ documents = <<>>
    /\ knowledge = [k \in KbIds |->
                        [uuid |-> "uuid-" \o k,
                         tenant_id |-> CHOOSE t \in Tenants : KbOf(t) = k]]
    /\ pgvector = <<>>
    /\ observed = <<>>
    /\ last = [op |-> "init"]
    /\ sessions = <<>>

\* the sessions that hold a document are those of its tenant's user (every
\* lookup of a row goes through the tenant filter)
CallersOf(id) == {UserOf(documents[id].tenant_id)}

\* ------------------------------------------- status manager, called directly
ManagerCall(op, id, target, r) ==
    /\ documents' = [documents EXCEPT ![id] = r.doc]
    /\ observed' = [observed EXCEPT ![id] = Observe(@, r.doc.status)]
    /\ last' = [op |-> op, id |-> id, pre |-> documents[id], target |-> target,
                ret |-> r.ok]
    /\ UNCHANGED <<knowledge, pgvector, sessions>>

UpdateStatus ==
    \E id \in DocIds, new_status \in Statuses \cup {STATUS_DEFAULT},
       chunks_count \in {<<>>},
       commit_ok \in BOOLEAN :
      \E current_user \in CallersOf(id) :
        ManagerCall("update_status", id, new_status,
            update_status(documents[id], new_status, chunks_count,
                          current_user, commit_ok))

MarkAsExtracted ==
    \E id \in DocIds, commit_ok \in BOOLEAN : \E current_user \in CallersOf(id) :
        ManagerCall("mark_as_extracted", id, STATUS_EXTRACTED,
            mark_as_extracted(documents[id], current_user, commit_ok))

MarkAsEmbedded ==
    \E id \in DocIds, commit_ok \in BOOLEAN, chunks_count \in {MaxChunks},
       embedding_model \in {EMBEDDING_MODEL} :
      \E current_user \in CallersOf(id) :
        ManagerCall("mark_as_embedded", id, STATUS_EMBEDDED,
            mark_as_embedded(documents[id], chunks_count, embedding_model,
                             current_user, commit_ok))

MarkAsFailed ==
    \E id \in DocIds, commit_ok \in BOOLEAN : \E current_user \in CallersOf(id) :
        ManagerCall("mark_as_failed", id, STATUS_FAILED,
            mark_as_failed(documents[id], current_user, commit_ok))

\* ------------------------------------------------------ processor, called
\* DocumentProcessor.process_document(document) on a stored row: what
\* POST /document/process/{uuid} runs for a row with content, and what any
\* other holder of a row runs.
ProcessCall(op, id, docs, obs, p) ==
    /\ documents' = p.documents
    /\ pgvector' = p.pgvector
    /\ observed' = [obs EXCEPT ![id] = Observe(@, p.documents[id].status)]
    /\ last' = [op |-> op, id |-> id, pre |-> docs[id], target |-> "",
                ret |-> p.result.success, called |-> TRUE,
                result |-> [p.result EXCEPT !.vector_ids = Len(@)],
                chunks |-> p.chunks, steps |-> p.steps,
                added |-> Len(p.pgvector) - Len(pgvector)]
    /\ UNCHANGED <<knowledge, sessions>>

ProcessDocument ==
    \E id \in DocIds, faults \in FaultSets : \E current_user \in CallersOf(id) :
        /\ Len(pgvector) + documents[id].content <= MaxVectors
        /\ ProcessCall("process_document", id, documents, observed,
              process_document(id, documents, pgvector, knowledge,
                               current_user, faults))

\* ------------------------------------------------------------- endpoints
\* the call returned without reaching the processor
NotProcessed(op, id, docs, obs) ==
    /\ documents' = docs
    /\ observed' = obs
    /\ last' = [op |-> op, id |-> id, pre |-> docs[id], target |-> "",
                ret |-> FALSE, called |-> FALSE, result |-> NoResult,
                chunks |-> 0, steps |-> NoSteps, added |-> 0]
    /\ UNCHANGED <<knowledge, pgvector, sessions>>

\* POST /upload/knowledge with knowledge_base_id: the row is created
\* uploaded; with content and a successful extraction it is marked
\* extracted and processed.  extraction_ok = FALSE is extracted text that
\* carries a failure indicator.
UploadToKnowledge(users, max_docs, contents, oks, fault_sets, other_kbs) ==
    \E current_user \in users, content \in contents,
       extraction_ok \in oks, commit_ok \in oks, faults \in fault_sets :
      \E kb \in {KbOf(current_user.tenant_id)} \cup other_kbs :
        LET id == Len(observed) + 1
            row == NewDocument(current_user, kb, content, STATUS_UPLOADED)
            ext == mark_as_extracted(row, current_user, commit_ok)
            docs0 == InsertRow(documents, id, row)
            docs1 == InsertRow(documents, id, ext.doc)
            obs1 == Append(observed, Observe(<<STATUS_UPLOADED>>, ext.doc.status))
        IN  /\ Len(observed) < max_docs
            /\ Len(pgvector) + content <= MaxVectors
            /\ IF content # 0 /\ extraction_ok
               THEN ProcessCall("upload", id, docs1, obs1,
                       process_document(id, docs1, pgvector, knowledge,
                                        current_user, faults))
               ELSE NotProcessed("upload", id, docs0,
                                 Append(observed, <<STATUS_UPLOADED>>))

Next ==
    \/ UpdateStatus
    \/ MarkAsExtracted
    \/ MarkAsEmbedded
    \/ MarkAsFailed
    \/ ProcessDocument
    \/ UploadToKnowledge({UserOf("A")}, MaxDocs, 0..MaxChunks, BOOLEAN, FaultSets,
                         {DanglingKb})

Spec == Init /\ [][Next]_vars

\* ------------------------------------------------------- search endpoints
Queries == 1..NumQueries
Limits == 1..MaxLimit
\* the thresholds the endpoints default to: 0.3, 0.5, 0.8
Thresholds == {3, 5, 8}

Searched(op, caller, query, knowledge_base_id, document_id, limit, threshold, store_ok, results) ==
    /\ last' = [op |-> op, caller |-> caller, query |-> query,
                knowledge_base_id |-> knowledge_base_id,
                document_id |-> document_id, limit |-> limit,
                threshold |-> threshold, store_ok |-> store_ok,
                results |-> results]
    /\ UNCHANGED <<documents, knowledge, pgvector, observed, sessions>>

\* POST /vector-search/search, as current_user
SearchSimilarChunks ==
    \E current_user \in CurrentUsers, query \in Queries,
       knowledge_base_id \in KbIds \cup {"None", DanglingKb},
       limit \in Limits, similarity_threshold \in Thresholds,
       store_ok \in BOOLEAN :
        Searched("search_similar_chunks", current_user.tenant_id, query,
                 knowledge_base_id, 0, limit, <<similarity_threshold>>, store_ok,
                 search_similar_chunks(knowledge, pgvector, query,
                     knowledge_base_id, limit, similarity_threshold, store_ok))

\* POST /vector-search/search-document, as current_user
SearchInDocument ==
    \E current_user \in CurrentUsers, query \in Queries,
       document_id \in 1..(Len(observed) + 1), limit \in Limits,
       store_ok \in BOOLEAN :
        Searched("search_by_document_id", current_user.tenant_id, query, "None",
                 document_id, limit, <<>>, store_ok,
                 search_by_document_id(documents, knowledge, pgvector,
                     document_id, query, limit, store_ok))

\* search_similar_content(query, knowledge_base_id, document_id, limit,
\* similarity_threshold): the knowledge-search routes authenticate nobody
SearchSimilarContent ==
    \E caller \in {"None"}, query \in Queries,
       knowledge_base_id \in KbIds \cup {"None"},
       document_id \in 0..Len(observed), limit \in Limits,
       similarity_threshold \in Thresholds, store_ok \in BOOLEAN :
        Searched("search_similar_content", caller, query, knowledge_base_id,
                 document_id, limit, <<similarity_threshold>>, store_ok,
                 search_similar_content(documents, knowledge, pgvector, query,
                     knowledge_base_id, document_id, limit,
                     similarity_threshold, store_ok))

\* POST /knowledge-search/search-multiple-knowledge-bases
\* with a list of distinct ids, of rows or not
KbRefs == KbIds \cup {DanglingKb}
KbLists == {l \in UNION {[1..n -> KbRefs] : n \in 0..Cardinality(KbRefs)} :
               \A i, j \in DOMAIN l : l[i] = l[j] => i = j}

SearchMultiple ==
    \E query \in Queries, knowledge_base_ids \in KbLists, limit \in Limits,
       similarity_threshold \in Thresholds, down \in SUBSET KbIds :
      \E omitted \in IF knowledge_base_ids = <<>> THEN BOOLEAN ELSE {FALSE} :
        /\ last' = [op |-> "search_multiple", caller |-> "None",
                    query |-> query, knowledge_base_ids |-> knowledge_base_ids,
                    omitted |-> omitted, down |-> down, limit |-> limit,
                    threshold |-> <<similarity_threshold>>,
                    parts |-> search_each(documents, knowledge, pgvector, query,
                                 knowledge_base_ids, limit, similarity_threshold, down),
                    results |-> api_search_multiple_knowledge_bases(documents,
                                 knowledge, pgvector, query, knowledge_base_ids,
                                 omitted, limit, similarity_threshold, down)]
        /\ UNCHANGED <<documents, knowledge, pgvector, observed, sessions>>

\* POST /document/delete/{uuid}: the row found through the tenant filter is
\* hard-deleted; the vector table is not touched
DeleteDocument ==
    \E id \in DocIds : \E current_user \in CallersOf(id) :
        /\ documents' = [i \in DocIds \ {id} |-> documents[i]]
        /\ last' = [op |-> "delete_document", id |-> id, pre |-> documents[id]]
        /\ UNCHANGED <<knowledge, pgvector, observed, sessions>>

\* A search writes nothing, so what a request returns depends only on the
\* tables it reads, not on the requests answered before it: every request
\* is issued from every state that uploads and deletions reach, and a
\* behaviour ends with the request it observes.
AllSearchOps == {"search_similar_chunks", "search_by_document_id",
                 "search_similar_content", "search_multiple"}
Quiet == last.op \notin AllSearchOps

SearchNext ==
    \/ Quiet /\ UploadToKnowledge(CurrentUsers, MaxSearchDocs, 1..MaxChunks,
                                  {TRUE}, NoFaults, {})
    \/ Quiet /\ DeleteDocument
    \/ Quiet /\ SearchSimilarChunks
    \/ Quiet /\ SearchInDocument
    \/ Quiet /\ SearchSimilarContent
    \/ Quiet /\ SearchMultiple

SearchSpec == Init /\ [][SearchNext]_vars

\* ------------------------------------------------------ document endpoints
\* POST /document/update/{uuid}: the fields set in the body (KbDocumentUpdate
\* has status and chunk_count among them) are written to the row found
\* through the tenant filter, with the audit fields.  status "None",
\* chunk_count <<>> and knowledge_base_id <<>> are fields the body does not
\* set; knowledge_base_id <<"None">> is a body that sets it to null.
update_document(doc, update_dict, current_user) ==
    LET d1 == IF update_dict.status # "None"
              THEN [doc EXCEPT !.status = update_dict.status] ELSE doc
        d2 == IF update_dict.chunk_count # <<>>
              THEN [d1 EXCEPT !.chunk_count = update_dict.chunk_count[1]] ELSE d1
        d3 == IF update_dict.knowledge_base_id # <<>>
              THEN [d2 EXCEPT !.knowledge_base_id = update_dict.knowledge_base_id[1]]
              ELSE d2
    IN update_common_fields(d3, current_user)

UpdateDocument ==
    \E id \in DocIds, status \in Statuses \cup {STATUS_DEFAULT, "None"},
       chunk_count \in {<<>>, <<1>>} :
      \E current_user \in CallersOf(id) :
        LET row == update_document(documents[id],
                       [status |-> status, chunk_count |-> chunk_count,
                        knowledge_base_id |-> <<>>],
                       current_user)
        IN  /\ documents[id].updated_at < MaxWrites
            /\ documents' = [documents EXCEPT ![id] = row]
            /\ observed' = [observed EXCEPT ![id] = Observe(@, row.status)]
            /\ last' = [op |-> "update_document", id |-> id,
                        pre |-> documents[id], target |-> status, ret |-> TRUE]
            /\ UNCHANGED <<knowledge, pgvector, sessions>>

\* uploads, the update endpoint and the status manager
ApiNext ==
    \/ UploadToKnowledge({UserOf("A")}, MaxDocs, 0..MaxChunks, BOOLEAN, NoFaults, {})
    \/ UpdateDocument
    \/ UpdateStatus
    \/ MarkAsExtracted
    \/ MarkAsEmbedded
    \/ MarkAsFailed

ApiSpec == Init /\ [][ApiNext]_vars

\* update_status(document, new_status, chunks_count) with a chunk count
UpdateStatusWithCount ==
    \E id \in DocIds, new_status \in Statuses, chunks_count \in {<<1>>},
       commit_ok \in BOOLEAN :
      \E current_user \in CallersOf(id) :
        ManagerCall("update_status", id, new_status,
            update_status(documents[id], new_status, chunks_count,
                          current_user, commit_ok))

\* the status manager alone, on rows whose upload did not reach the
\* processor (no text, or text with an extraction-failure indicator)
ManagerNext ==
    \/ UploadToKnowledge({UserOf("A")}, MaxDocs, 0..MaxChunks, {FALSE}, NoFaults, {})
    \/ UpdateStatus
    \/ UpdateStatusWithCount
    \/ MarkAsExtracted
    \/ MarkAsEmbedded
    \/ MarkAsFailed

ManagerSpec == Init /\ [][ManagerNext]_vars

\* POST /document/update/{uuid} with a body that sets knowledge_base_id
\* only, to null or to the id of no row, on a row that names a knowledge base
ReassignDocument ==
    \E id \in DocIds, knowledge_base_id \in {"None", DanglingKb} :
      \E current_user \in CallersOf(id) :
        LET row == update_document(documents[id],
                       [status |-> "None", chunk_count |-> <<>>,
                        knowledge_base_id |-> <<knowledge_base_id>>],
                       current_user)
        IN  /\ documents[id].knowledge_base_id \in DOMAIN knowledge
            /\ documents' = [documents EXCEPT ![id] = row]
            /\ last' = [op |-> "update_document", id |-> id,
                        pre |-> documents[id], target |-> "None", ret |-> TRUE]
            /\ UNCHANGED <<knowledge, pgvector, observed, sessions>>

\* POST /document/update/{uuid} with a body that sets status only, on a row
\* not written since it was created
SetStatus ==
    \E id \in DocIds, status \in Statuses \cup {STATUS_DEFAULT} :
      \E current_user \in CallersOf(id) :
        LET row == update_document(documents[id],
                       [status |-> status, chunk_count |-> <<>>,
                        knowledge_base_id |-> <<>>],
                       current_user)
        IN  /\ documents[id].updated_at = 0
            /\ documents' = [documents EXCEPT ![id] = row]
            /\ observed' = [observed EXCEPT ![id] = Observe(@, row.status)]
            /\ last' = [op |-> "update_document", id |-> id,
                        pre |-> documents[id], target |-> status, ret |-> TRUE]
            /\ UNCHANGED <<knowledge, pgvector, sessions>>

\* uploads, rows given any status through the update endpoint, processing
ReprocessNext ==
    \/ UploadToKnowledge({UserOf("A")}, MaxDocs, 1..MaxChunks, BOOLEAN, NoFaults, {})
    \/ SetStatus
    \/ ProcessDocument

ReprocessSpec == Init /\ [][ReprocessNext]_vars

\* uploads, changes of the owning knowledge base, and processing
ResolveNext ==
    \/ UploadToKnowledge({UserOf("A")}, MaxDocs, 1..MaxChunks, BOOLEAN, FaultSets,
                         {DanglingKb})
    \/ ReassignDocument
    \/ ProcessDocument

ResolveSpec == Init /\ [][ResolveNext]_vars

\* ------------------------------------------------- concurrent processing
\* POST /document/process/{uuid} served by NumRuns requests at a time, each
\* on its own session.  A request loads the row, runs the splitter and the
\* add, then asks the status manager for embedded or failed.  The manager
\* tests the status of the object the session loaded; the commit flushes an
\* UPDATE of the attributes the run changed, keyed by the primary key only.
Runs == 1..NumRuns
Idle == [pc |-> "idle"]

\* the row after the flush of doc, loaded as `loaded`, by a session
flush(row, loaded, doc) ==
    [row EXCEPT
       !.status = IF doc.status # loaded.status THEN doc.status ELSE @,
       !.chunk_count = IF doc.chunk_count # loaded.chunk_count
                       THEN doc.chunk_count ELSE @,
       !.embedding_model = IF doc.embedding_model # loaded.embedding_model
                           THEN doc.embedding_model ELSE @,
       !.updated_by = IF doc.updated_by # loaded.updated_by
                      THEN doc.updated_by ELSE @,
       !.updated_at = @ + 1,
       !.processed_at = IF doc.processed_at # loaded.processed_at
                        THEN row.updated_at + 1 ELSE @]

ConcurrentInit ==
    /\ documents = <<>>
    /\ knowledge = [k \in KbIds |->
                        [uuid |-> "uuid-" \o k,
                         tenant_id |-> CHOOSE t \in Tenants : KbOf(t) = k]]
    /\ pgvector = <<>>
    /\ observed = <<>>
    /\ last = [op |-> "init"]
    /\ sessions = [r \in Runs |-> Idle]

\* the handler finds the row through the tenant filter and returns early
\* when it has no content
BeginProcess(r) ==
    \E id \in DocIds : \E current_user \in CallersOf(id) :
        /\ sessions[r].pc = "idle"
        /\ documents[id].content # 0
        /\ sessions' = [sessions EXCEPT ![r] =
               [pc |-> "loaded", id |-> id, document |-> documents[id],
                current_user |-> current_user]]
        /\ last' = [op |-> "begin_process", run |-> r, id |-> id]
        /\ UNCHANGED <<documents, knowledge, pgvector, observed>>

\* steps 1 and 2 of process_document, on the loaded object
AddVectors(r) ==
    \E faults \in {{}, {"vector_store"}} :
        LET run == sessions[r]
            split == split_document(run.id, run.document, run.current_user, faults)
            add == add_vectors_to_store(run.document, split.chunks, pgvector,
                                        knowledge, faults)
        IN  /\ run.pc = "loaded"
            /\ Len(pgvector) + run.document.content <= MaxVectors
            /\ pgvector' = add.store
            /\ sessions' = [sessions EXCEPT ![r] =
                   [run EXCEPT !.pc = IF add.exc = "None" THEN "added" ELSE "raised"]]
            /\ last' = [op |-> "add_vectors", run |-> r, id |-> run.id]
            /\ UNCHANGED <<documents, knowledge, observed>>

\* step 3 or the except clause of process_document, then the response
UpdateStatusOfRun(r) ==
    LET run == sessions[r]
        upd == IF run.pc = "added"
               THEN mark_as_embedded(run.document, run.document.content,
                                     EMBEDDING_MODEL, run.current_user, TRUE)
               ELSE mark_as_failed(run.document, run.current_user, TRUE)
        row == IF upd.ok THEN flush(documents[run.id], run.document, upd.doc)
               ELSE documents[run.id]
    IN  /\ run.pc \in {"added", "raised"}
        /\ documents' = [documents EXCEPT ![run.id] = row]
        /\ observed' = [observed EXCEPT ![run.id] = Observe(@, row.status)]
        /\ sessions' = [sessions EXCEPT ![r] = Idle]
        /\ last' = [op |-> "update_status_of_run", run |-> r, id |-> run.id]
        /\ UNCHANGED <<knowledge, pgvector>>

\* POST /upload/knowledge up to the call of the processor: the row is
\* created, marked extracted and handed, as this session holds it, to
\* process_document
BeginUpload(r) ==
    \E current_user \in {UserOf("A")}, content \in 1..MaxChunks,
       extraction_ok \in BOOLEAN, commit_ok \in BOOLEAN :
        LET id == Len(observed) + 1
            row == NewDocument(current_user, KbOf(current_user.tenant_id),
                               content, STATUS_UPLOADED)
            ext == IF extraction_ok
                   THEN mark_as_extracted(row, current_user, commit_ok)
                   ELSE [ok |-> FALSE, doc |-> row]
        IN  /\ sessions[r].pc = "idle"
            /\ Len(observed) < MaxDocs
            /\ documents' = InsertRow(documents, id, ext.doc)
            /\ observed' = Append(observed, Observe(<<STATUS_UPLOADED>>, ext.doc.status))
            /\ sessions' = [sessions EXCEPT ![r] =
                   IF extraction_ok
                   THEN [pc |-> "loaded", id |-> id, document |-> ext.doc,
                         current_user |-> current_user]
                   ELSE Idle]
            /\ last' = [op |-> "begin_upload", run |-> r, id |-> id]
            /\ UNCHANGED <<knowledge, pgvector>>

ConcurrentNext ==
    \/ \E r \in Runs : BeginUpload(r)
    \/ \E r \in Runs : BeginProcess(r)
    \/ \E r \in Runs : AddVectors(r)
    \/ \E r \in Runs : UpdateStatusOfRun(r)

ConcurrentSpec == ConcurrentInit /\ [][ConcurrentNext]_vars

\* ------------------------------------------------------------ text splitter
\* RecursiveCharacterTextSplitter(chunk_size, chunk_overlap, length_function
\* = len, separators = ["\n\n", "\n", " ", ""]), with the defaults
\* keep_separator = True and strip_whitespace = True, as split_documents runs
\* it on the content of one document.  A text is a sequence of characters;
\* a split and a chunk are the interval [s, e] of the text they cover (with
\* keep_separator the pieces are joined by "", so every chunk is a
\* contiguous part of the text).
Chars == {"a", " ", "\n"}
Whitespace == {" ", "\n"}
separators == << <<"\n", "\n">>, <<"\n">>, <<" ">>, <<>> >>

Piece(s, e) == [s |-> s, e |-> e]
PieceLen(p) == p.e - p.s + 1

\* the starts of the leftmost non-overlapping matches of separator in
\* text[i..e] (re.split)
RECURSIVE MatchStarts(_, _, _, _)
MatchStarts(text, separator, i, e) ==
    IF i + Len(separator) - 1 > e THEN <<>>
    ELSE IF SubSeq(text, i, i + Len(separator) - 1) = separator
    THEN <<i>> \o MatchStarts(text, separator, i + Len(separator), e)
    ELSE MatchStarts(text, separator, i + 1, e)

\* _split_text_with_regex(text[s..e], separator, keep_separator = True):
\* each match starts a piece that runs to the next match; "" splits into
\* characters; empty pieces are dropped
split_text_with_regex(text, separator, s, e) ==
    IF separator = <<>> THEN [i \in 1..(e - s + 1) |-> Piece(s + i - 1, s + i - 1)]
    ELSE LET cuts == <<s>> \o MatchStarts(text, separator, s, e) \o <<e + 1>>
             pieces == [i \in 1..(Len(cuts) - 1) |-> Piece(cuts[i], cuts[i + 1] - 1)]
         IN SelectSeq(pieces, LAMBDA p : p.s <= p.e)

\* the index of the first separator that is "" or occurs in text[s..e]
RECURSIVE first_separator(_, _, _, _, _)
first_separator(text, seps, i, s, e) ==
    IF i >= Len(seps) THEN Len(seps)
    ELSE IF seps[i] = <<>> \/ MatchStarts(text, seps[i], s, e) # <<>> THEN i
    ELSE first_separator(text, seps, i + 1, s, e)

\* str.strip() of text[s..e]: the interval left, e < s when nothing is left
RECURSIVE strip(_, _, _)
strip(text, s, e) ==
    IF s > e THEN Piece(s, e)
    ELSE IF text[s] \in Whitespace THEN strip(text, s + 1, e)
    ELSE IF text[e] \in Whitespace THEN strip(text, s, e - 1)
    ELSE Piece(s, e)

\* _join_docs: the pieces joined and stripped; None (no chunk) when blank
join_docs(text, current_doc) ==
    IF current_doc = <<>> THEN <<>>
    ELSE LET p == strip(text, current_doc[1].s, current_doc[Len(current_doc)].e)
         IN IF p.s > p.e THEN <<>> ELSE <<p>>

\* a splitter that drops pieces only until the next one fits
keep_dropping_until_fit(total, len, chunk_size, chunk_overlap) ==
    total + len > chunk_size /\ total > 0

\* the while condition of _merge_splits (the joining separator is "")
keep_dropping(total, len, chunk_size, chunk_overlap) ==
    \/ total > chunk_overlap
    \/ total + len > chunk_size /\ total > 0

RECURSIVE drop_front(_, _, _, _, _)
drop_front(current_doc, total, len, chunk_size, chunk_overlap) ==
    IF keep_dropping(total, len, chunk_size, chunk_overlap)
    THEN drop_front(Tail(current_doc), total - PieceLen(current_doc[1]), len,
                    chunk_size, chunk_overlap)
    ELSE [current_doc |-> current_doc, total |-> total]

\* _merge_splits(splits, ""): the loop from split i on
RECURSIVE merge_splits(_, _, _, _, _, _, _, _)
merge_splits(text, splits, i, docs, current_doc, total, chunk_size, chunk_overlap) ==
    IF i > Len(splits) THEN docs \o join_docs(text, current_doc)
    ELSE LET len == PieceLen(splits[i])
             full == total + len > chunk_size /\ current_doc # <<>>
             kept == IF full
                     THEN drop_front(current_doc, total, len, chunk_size, chunk_overlap)
                     ELSE [current_doc |-> current_doc, total |-> total]
         IN merge_splits(text, splits, i + 1,
                IF full THEN docs \o join_docs(text, current_doc) ELSE docs,
                Append(kept.current_doc, splits[i]), kept.total + len,
                chunk_size, chunk_overlap)

\* _split_text(text[s..e], separators[from..]): pieces shorter than
\* chunk_size are collected and merged; a longer piece is split by the
\* separators that remain, or kept as it is when none remains
RECURSIVE split_text(_, _, _, _, _, _)
RECURSIVE split_pieces(_, _, _, _, _, _, _, _)
split_text(text, s, e, from, chunk_size, chunk_overlap) ==
    LET k == first_separator(text, separators, from, s, e)
    IN split_pieces(text, split_text_with_regex(text, separators[k], s, e), 1,
                    <<>>, <<>>, IF separators[k] = <<>> THEN 0 ELSE k + 1,
                    chunk_size, chunk_overlap)

split_pieces(text, splits, i, final_chunks, good_splits, next, chunk_size, chunk_overlap) ==
    LET merged == merge_splits(text, good_splits, 1, <<>>, <<>>, 0,
                               chunk_size, chunk_overlap)
    IN  IF i > Len(splits) THEN final_chunks \o merged
        ELSE IF PieceLen(splits[i]) < chunk_size
        THEN split_pieces(text, splits, i + 1, final_chunks,
                          Append(good_splits, splits[i]), next,
                          chunk_size, chunk_overlap)
        ELSE split_pieces(text, splits, i + 1,
                 final_chunks \o merged \o
                     (IF next = 0 THEN <<splits[i]>>
                      ELSE split_text(text, splits[i].s, splits[i].e, next,
                                      chunk_size, chunk_overlap)),
                 <<>>, next, chunk_size, chunk_overlap)

\* text_splitter.split_documents([doc]): one chunk per piece of split_text
split_documents(text, chunk_size, chunk_overlap) ==
    split_text(text, 1, Len(text), 1, chunk_size, chunk_overlap)

\* the non-empty contents and the settings a DocumentProcessor can be built
\* with (the constructor of the splitter raises when chunk_overlap is
\* larger than chunk_size)
Texts == UNION {[1..n -> Chars] : n \in 1..MaxTextLen}

ChunkerInit ==
    /\ documents = <<>>
    /\ knowledge = <<>>
    /\ pgvector = <<>>
    /\ observed = <<>>
    /\ sessions = <<>>
    /\ \E text \in Texts, chunk_overlap \in 1..MaxChunkOverlap :
         \E chunk_size \in chunk_overlap..MaxChunkSize :
           last = [op |-> "content", text |-> text, chunk_size |-> chunk_size,
                   chunk_overlap |-> chunk_overlap]

SplitDocument ==
    /\ last.op = "content"
    /\ last' = [op |-> "split_document", text |-> last.text,
                chunk_size |-> last.chunk_size,
                chunk_overlap |-> last.chunk_overlap,
                chunks |-> split_documents(last.text, last.chunk_size,
                                           last.chunk_overlap)]
    /\ UNCHANGED <<documents, knowledge, pgvector, observed, sessions>>

ChunkerNext == SplitDocument

ChunkerSpec == ChunkerInit /\ [][ChunkerNext]_vars

\* ================================================================ properties
ManagerOps == {"update_status", "mark_as_extracted", "mark_as_embedded",
               "mark_as_failed"}
ProcessOps == {"process_document", "upload"}
FlowEdges == {<<STATUS_UPLOADED, STATUS_EXTRACTED>>, <<STATUS_UPLOADED, STATUS_FAILED>>,
              <<STATUS_EXTRACTED, STATUS_EMBEDDED>>, <<STATUS_EXTRACTED, STATUS_FAILED>>}
Terminal == {STATUS_EMBEDDED, STATUS_FAILED}

\* C1: the status manager, called directly or by process_document, changes
\* a row only along uploaded->extracted, uploaded->failed,
\* extracted->embedded or extracted->failed; on a row that is embedded or
\* failed every call returns False and writes nothing, whatever the target
\* (the same status included).
C1_OnlyFlowTransitions ==
    last.op \in ManagerOps \cup {"process_document"} =>
        /\ documents[last.id] # last.pre =>
              <<last.pre.status, documents[last.id].status>> \in FlowEdges
        /\ last.op \in ManagerOps /\ last.ret =>
              /\ documents[last.id].status = last.target
              /\ <<last.pre.status, last.target>> \in FlowEdges
        /\ last.pre.status \in Terminal =>
              /\ documents[last.id] = last.pre
              /\ last.op \in ManagerOps => ~last.ret

\* an embedded row was asked to become embedded again
C1_Witness ==
    /\ last.op = "update_status"
    /\ last.pre.status = STATUS_EMBEDDED
    /\ last.target = STATUS_EMBEDDED

RECURSIVE IsSubsequence(_, _)
IsSubsequence(a, b) ==
    IF a = <<>> THEN TRUE
    ELSE IF b = <<>> THEN FALSE
    ELSE IF Head(a) = Head(b) THEN IsSubsequence(Tail(a), Tail(b))
    ELSE IsSubsequence(a, Tail(b))

\* C2: the statuses persisted for a document, in commit order, form a
\* subsequence of uploaded, extracted, embedded or of uploaded, extracted,
\* failed: the status never returns to an earlier one.
C2_StatusMonotonic ==
    \A id \in DocIds :
        \/ IsSubsequence(observed[id],
                         <<STATUS_UPLOADED, STATUS_EXTRACTED, STATUS_EMBEDDED>>)
        \/ IsSubsequence(observed[id],
                         <<STATUS_UPLOADED, STATUS_EXTRACTED, STATUS_FAILED>>)

\* a document that went uploaded, failed was processed again
C2_Witness ==
    /\ last.op = "process_document"
    /\ last.pre.status = STATUS_FAILED
    /\ observed[last.id] = <<STATUS_UPLOADED, STATUS_FAILED>>

\* C3: a status-manager call whose target is not an allowed next status of
\* the row returns False and leaves status, chunk_count, processed_at,
\* embedding_model, updated_by and updated_at as they were.
C3_RejectedTransitionIsNoOp ==
    last.op \in ManagerOps /\ <<last.pre.status, last.target>> \notin FlowEdges =>
        /\ ~last.ret
        /\ documents[last.id] = last.pre

\* mark_as_embedded, carrying a chunk count and a model, on an uploaded row
C3_Witness ==
    /\ last.op = "mark_as_embedded"
    /\ last.pre.status = STATUS_UPLOADED
    /\ ~last.ret

C5_FailedAfterAnyFailure ==
    /\ last.op \in ProcessOps
    /\ last.called
    /\ last.steps.split = "ok"
    /\ \/ last.steps.add = "raised"
       \/ last.steps.mark_embedded \in {"false", "rolled back"}
    => documents[last.id].status = STATUS_FAILED

\* C6: process_document never raises: whenever splitting, resolution, the
\* add or a status update fails, it returns success = False with the error
\* text.
C6_NeverRaises ==
    last.op \in ProcessOps /\ last.called =>
        /\ ~last.result.raised
        /\ \/ last.steps.split = "raised"
           \/ last.steps.add = "raised"
           \/ last.steps.mark_embedded \in {"false", "rolled back"}
           \/ last.steps.mark_failed \in {"false", "rolled back"}
           => ~last.result.success /\ last.result.error # "None"

\* the store raised and then the commit of the failed status raised too
C6_Witness ==
    /\ last.op \in ProcessOps
    /\ last.called
    /\ last.steps.add = "raised"
    /\ last.steps.mark_failed = "rolled back"
    /\ ~last.result.raised

\* C7 as stated: process_document on empty content returns success = False
\* with the empty-content error, leaves the row as it was (uploaded) and
\* writes no vector.
C7_EmptyContentLeavesUploaded ==
    /\ last.op \in ProcessOps
    /\ last.called
    /\ last.pre.content = 0
    /\ last.pre.status = STATUS_UPLOADED
    => /\ ~last.result.success
       /\ last.result.error = "ValueError: empty content"
       /\ last.added = 0
       /\ documents[last.id].status = STATUS_UPLOADED

\* the rows of the vector table that hold window w of document id
ChunkRows(id, w) ==
    {i \in 1..Len(pgvector) : /\ pgvector[i].metadata.document_id = id
                              /\ pgvector[i].page_content = w}

\* C8 as stated: after process_document has run again on an embedded
\* document, the vector table holds at most one row per window of that
\* document (the rows of the first run were deleted before the add).
C8_OneRowPerChunk ==
    last.op = "process_document" /\ last.pre.status = STATUS_EMBEDDED =>
        \A w \in 1..MaxChunks : Cardinality(ChunkRows(last.id, w)) <= 1

SearchOps == {"search_similar_chunks", "search_by_document_id"}

\* C9 as stated: no result of a search made by an authenticated caller
\* belongs to a document or a collection of another tenant than the
\* caller's.
C9_TenantIsolation ==
    last.op \in SearchOps =>
        \A i \in 1..Len(last.results) :
            /\ last.results[i].tenant_id = last.caller
            /\ last.results[i].document_id \in DocIds =>
                  documents[last.results[i].document_id].tenant_id = last.caller
            /\ knowledge[last.results[i].knowledge_base_id].tenant_id = last.caller

\* C10 as stated: every result of a search that was given a threshold,
\* with or without a document_id, scores at least the threshold.
C10_ThresholdFiltering ==
    last.op \in {"search_similar_chunks", "search_similar_content"} =>
        \A i \in 1..Len(last.results) :
            last.results[i].similarity_score >= last.threshold[1]

C12_MergedListSortedDescending ==
    last.op = "search_multiple" =>
        \A i, j \in 1..Len(last.results) :
            i < j => last.results[i].similarity_score >= last.results[j].similarity_score

\* the per-knowledge-base lists, put end to end, were not in order
C12_Witness ==
    /\ last.op = "search_multiple"
    /\ Len(last.results) >= 2
    /\ Flatten(last.parts) # last.results

\* the results of the listed searches that did not raise
HealthyParts ==
    {i \in DOMAIN last.parts : last.knowledge_base_ids[i] \notin last.down}

\* C13: when the search of one listed knowledge base raises, the call still
\* returns every result of the searches of the other listed knowledge bases.
C13_PartialFailureTolerated ==
    last.op = "search_multiple" /\ ~last.omitted =>
        \A i \in HealthyParts : \A n \in 1..Len(last.parts[i]) :
            \E j \in 1..Len(last.results) : last.results[j] = last.parts[i][n]

\* one listed search raised, another returned results
C13_Witness ==
    /\ last.op = "search_multiple"
    /\ \E i \in DOMAIN last.knowledge_base_ids : last.knowledge_base_ids[i] \in last.down
    /\ \E i \in HealthyParts : last.parts[i] # <<>>
    /\ last.results # <<>>

Occurrences(seq, x) == Cardinality({i \in 1..Len(seq) : seq[i] = x})

\* C14: the list api_search_multiple_knowledge_bases returns is a
\* permutation of the per-knowledge-base lists put end to end, each of at
\* most limit results: nothing is dropped after the merge.
C14_MergedListNotTruncated ==
    last.op = "search_multiple" =>
        /\ Len(last.results) = Len(Flatten(last.parts))
        /\ \A n \in 1..Len(last.results) :
              Occurrences(last.results, last.results[n])
                  = Occurrences(Flatten(last.parts), last.results[n])
        /\ \A i \in DOMAIN last.parts : Len(last.parts[i]) <= last.limit

\* more results than limit were returned
C14_Witness ==
    /\ last.op = "search_multiple"
    /\ Len(last.results) > last.limit
    /\ Len(last.knowledge_base_ids) >= 2

\* C15 as stated: called with an empty list of knowledge base ids, the
\* search goes to every knowledge base and returns what each of them holds
\* for the query.
C15_EmptyListSearchesEveryCollection ==
    last.op = "search_multiple" /\ last.knowledge_base_ids = <<>> =>
        \A kb \in DOMAIN knowledge :
            LET part == search_similar_content(documents, knowledge, pgvector,
                            last.query, kb, 0, last.limit, last.threshold[1],
                            kb \notin last.down)
            IN \A n \in 1..Len(part) :
                   \E j \in 1..Len(last.results) : last.results[j] = part[n]

\* C16 as stated: no search by knowledge base, over all collections or over
\* a list of knowledge bases returns a chunk of a document that has been
\* deleted.
C16_DeletedDocumentPurged ==
    last.op \in {"search_similar_chunks", "search_similar_content", "search_multiple"} =>
        \A i \in 1..Len(last.results) : last.results[i].document_id \in DocIds

\* the ids of the rows that were created and are no longer in the table
DeletedIds == (1..Len(observed)) \ DocIds

\* C17: a search within a document whose row has been deleted returns the
\* empty list, whatever the query and the limit.
C17_DeletedDocumentSearchIsEmpty ==
    /\ last.op \in {"search_by_document_id", "search_similar_content"}
    /\ last.document_id \in DeletedIds
    => last.results = <<>>

\* the deleted document's chunks are still in the vector table
C17_Witness ==
    /\ last.op = "search_by_document_id"
    /\ last.document_id \in DeletedIds
    /\ last.store_ok
    /\ \E i \in 1..Len(pgvector) : pgvector[i].metadata.document_id = last.document_id

\* C18: every result of a search within a document carries the requested
\* document_id, and there are at most limit of them.
C18_WithinDocumentOnly ==
    /\ last.op \in {"search_by_document_id", "search_similar_content"}
    /\ last.document_id # 0
    => /\ Len(last.results) <= last.limit
       /\ \A i \in 1..Len(last.results) :
              last.results[i].document_id = last.document_id

\* the collection searched also holds chunks of another document
C18_Witness ==
    /\ last.op = "search_by_document_id"
    /\ last.results # <<>>
    /\ \E i \in 1..Len(pgvector) :
          /\ pgvector[i].metadata.document_id # last.document_id
          /\ pgvector[i].collection
                 = knowledge[documents[last.document_id].knowledge_base_id].uuid

\* C19 as stated: after creation the persisted status of a document is
\* changed by the status manager only; the update endpoint leaves it as it
\* was.
C19_StatusChangedByManagerOnly ==
    last.op = "update_document" =>
        documents[last.id].status = last.pre.status

\* C20: a mark_as_embedded that returns True leaves the row embedded, with
\* the given chunk count, the given embedding model and processed_at stamped
\* by this write; a mark_as_failed that returns True leaves the row failed
\* with chunk_count 0.
C20_MarkEffects ==
    /\ last.op = "mark_as_embedded" /\ last.ret =>
          /\ documents[last.id].status = STATUS_EMBEDDED
          /\ documents[last.id].chunk_count = MaxChunks
          /\ documents[last.id].embedding_model = EMBEDDING_MODEL
          /\ documents[last.id].processed_at = documents[last.id].updated_at
          /\ documents[last.id].processed_at > last.pre.updated_at
    /\ last.op = "mark_as_failed" /\ last.ret =>
          /\ documents[last.id].status = STATUS_FAILED
          /\ documents[last.id].chunk_count = 0

\* a row that carried a chunk count was marked failed
C20_Witness ==
    /\ last.op = "mark_as_failed"
    /\ last.ret
    /\ last.pre.chunk_count # 0

\* the resolution of the owning collection fails for the row processed
Unresolvable ==
    /\ last.op \in ProcessOps
    /\ last.called
    /\ last.steps.split = "ok"
    /\ last.pre.knowledge_base_id \notin DOMAIN knowledge

C22_ScoreInUnitInterval ==
    last.op \in AllSearchOps =>
        \A i \in 1..Len(last.results) :
            /\ last.results[i].similarity_score >= 0
            /\ last.results[i].similarity_score <= Scale

\* the characters two consecutive chunks share
Overlap(a, b) == IF a.e >= b.s THEN a.e - b.s + 1 ELSE 0

C24_ConcurrentRunsFollowStateMachine ==
    \A id \in DocIds : \A i \in 1..(Len(observed[id]) - 1) :
        <<observed[id][i], observed[id][i + 1]>> \in FlowEdges

\* C25: a status-manager call writes the status, the derived fields and the
\* audit fields together or not at all: when it returns False, in
\* particular when the commit of an allowed transition raises, the row is
\* exactly as it was; when it returns True the status is the target, the
\* audit fields are those of this write and processed_at is stamped by it
\* for embedded and failed.
C25_TransitionAllOrNothing ==
    last.op \in ManagerOps =>
        /\ ~last.ret => documents[last.id] = last.pre
        /\ last.ret =>
              /\ documents[last.id].status = last.target
              /\ documents[last.id].updated_at = last.pre.updated_at + 1
              /\ documents[last.id].updated_by \in {u.id : u \in CallersOf(last.id)}
              /\ IF last.target \in Terminal
                 THEN documents[last.id].processed_at = documents[last.id].updated_at
                 ELSE documents[last.id].processed_at = last.pre.processed_at

\* the commit of extracted -> embedded raised
C25_Witness ==
    /\ last.op = "mark_as_embedded"
    /\ last.pre.status = STATUS_EXTRACTED
    /\ ~last.ret

\* the rows of the vector table a search of the knowledge base last
\* searched can return, and those of them that score at least the threshold
KbRows ==
    {i \in 1..Len(pgvector) :
        /\ pgvector[i].collection = knowledge[last.knowledge_base_id].uuid
        /\ pgvector[i].metadata.knowledge_base_id = last.knowledge_base_id}
RowScore(i) ==
    Scale - Distance(last.query, pgvector[i].metadata.document_id,
                     pgvector[i].page_content)
PassingRows == {i \in KbRows : RowScore(i) >= last.threshold[1]}
IsRow(result, i) ==
    /\ result.document_id = pgvector[i].metadata.document_id
    /\ result.content = pgvector[i].page_content
    /\ result.similarity_score = RowScore(i)

\* C26: a healthy search of an existing knowledge base returns the limit
\* nearest of the rows of its collection that score at least the threshold
\* (all of them when they are fewer), each once, nearest first: never more
\* than limit, and a passing row is left out only if no result scores less
\* than it.
C26_NearestPassingUpToLimit ==
    /\ last.op = "search_similar_chunks"
    /\ last.knowledge_base_id \in DOMAIN knowledge
    /\ last.store_ok
    => /\ Len(last.results) <= last.limit
       /\ Len(last.results) = IF Cardinality(PassingRows) < last.limit
                              THEN Cardinality(PassingRows) ELSE last.limit
       /\ \A n \in 1..Len(last.results) :
              \E i \in PassingRows : IsRow(last.results[n], i)
       /\ \A n, m \in 1..Len(last.results) :
              /\ n < m => last.results[n].similarity_score
                              >= last.results[m].similarity_score
              /\ n # m => last.results[n] # last.results[m]
       /\ \A i \in PassingRows :
              \/ \E n \in 1..Len(last.results) : IsRow(last.results[n], i)
              \/ \A n \in 1..Len(last.results) :
                     last.results[n].similarity_score >= RowScore(i)

\* more rows passed the threshold than limit, and another row did not pass
C26_Witness ==
    /\ last.op = "search_similar_chunks"
    /\ last.knowledge_base_id \in DOMAIN knowledge
    /\ last.store_ok
    /\ Cardinality(PassingRows) > last.limit
    /\ KbRows # PassingRows

\* C27 as stated: every row the processor writes to the vector table
\* carries, in its metadata, the document_id and tenant_id of its document,
\* the id of the owning knowledge base and the position of the chunk.
C27_ChunksCarryAttributes ==
    \A i \in 1..Len(pgvector) :
        /\ {"document_id", "tenant_id", "knowledge_base_id", "position"}
               \subseteq DOMAIN pgvector[i].metadata
        /\ pgvector[i].metadata.document_id \in 1..Len(observed)

\* result a of the merged list comes from a listed search before the one
\* result b comes from, or from an earlier place of the same search with a
\* position that is not larger
ComesBefore(a, b) ==
    \E i, j \in DOMAIN last.parts :
      \E n \in 1..Len(last.parts[i]), m \in 1..Len(last.parts[j]) :
        /\ last.parts[i][n] = last.results[a]
        /\ last.parts[j][m] = last.results[b]
        /\ \/ i < j
           \/ i = j /\ n < m /\ last.results[a].position <= last.results[b].position

C29_SuccessOnlyFromExtracted ==
    last.op \in ProcessOps /\ last.called =>
        /\ last.result.success =>
              /\ last.pre.status = STATUS_EXTRACTED
              /\ documents[last.id].status = STATUS_EMBEDDED
        /\ last.pre.status # STATUS_EXTRACTED => ~last.result.success

\* a row with the schema default status was processed, every step up to
\* the status update succeeding
C29_Witness ==
    /\ last.op = "process_document"
    /\ last.pre.status = STATUS_DEFAULT
    /\ last.steps.add = "ok"
    /\ ~last.result.success

\* C30 as stated: a call of process_document that returns success = False
\* leaves none of the rows it added in the vector table, so a document has
\* rows in the vector table only if a run for it has ended embedded.
C30_FailedRunLeavesNoVectors ==
    /\ last.op \in ProcessOps /\ last.called /\ ~last.result.success =>
          last.added = 0
    /\ \A i \in 1..Len(pgvector) :
          \E n \in 1..Len(observed[pgvector[i].metadata.document_id]) :
              observed[pgvector[i].metadata.document_id][n] = STATUS_EMBEDDED

====
